---- MODULE Spec2Model ----
(***************************************************************************)
(* A model of the upload service in src/app.py: the bounded outbound       *)
(* buffer produce_queue, the producer() and consumer() loops, the          *)
(* validation handler handle_file() and the upload handler                 *)
(* UploadHandler.post() with its continuation process_upload()/upload().   *)
(*                                                                         *)
(* The service runs on one cooperative event loop, so the code between two *)
(* awaits runs without interruption.  Every action below is one such       *)
(* segment: it starts where a coroutine resumes from an await and ends     *)
(* where it suspends at the next one.                                      *)
(***************************************************************************)
EXTENDS Naturals, Sequences, FiniteSets, TLC

VARIABLES
    produce_queue,   \* the deque of line 81: a sequence of events, oldest first
    mqp_connected,   \* MQStatus.mqp_connected
    mqc_connected,   \* MQStatus.mqc_connected
    ppc,             \* where producer() is suspended
    item,            \* producer(): the event popped by the current iteration
    remaining,       \* producer(): iterations the for loop of line 166 still owes
    cpc,             \* where consumer() / handle_file() is suspended
    msgs,            \* handle_file(): the batch being handled
    idx,             \* handle_file(): position of the record being handled
    batches,         \* number of batches getmany() has returned so far
    uploads,         \* the upload requests: request, response status, continuation
    nextEid,         \* history: serial number given to the next enqueued event
    published,       \* history: serial numbers of the events published, in order
    evicted,         \* history: serial numbers of the events the deque discarded
    lastEvict,       \* history: what the most recent discard removed
    retry,           \* history: the event re-inserted by the last failed publish
    copyLog,         \* history: storage.copy calls of the current batch
    enqLog,          \* history: every produce_queue.append call of a handler
    response         \* the last response of the status endpoint (its queue keys)

vars == <<produce_queue, mqp_connected, mqc_connected, ppc, item, remaining,
          cpc, msgs, idx, batches, uploads, nextEid, published, evicted,
          lastEvict, retry, copyLog, enqLog, response>>

producerVars == <<mqp_connected, ppc, item, remaining, published, retry>>
consumerVars == <<mqc_connected, cpc, msgs, idx, batches, copyLog>>
queueVars    == <<produce_queue, nextEid, evicted, lastEvict, enqLog>>

-----------------------------------------------------------------------------
(* Bounds of the model.                                                    *)

\* Capacity of produce_queue.  The service runs with 999 (line 81); the model
\* runs the same deque with a small capacity so that overflow happens.
QueueMaxLen == 2

\* Number of upload requests the model lets arrive.
MaxUploads == 2

\* Longest batch getmany() returns.
MaxBatchLen == 2

\* Number of batches getmany() returns.
MaxBatches == 1

-----------------------------------------------------------------------------
(* Values.                                                                 *)

None == "None"

NoItem == [eid |-> 0]
NoRetry == [eid |-> 0, connected |-> FALSE, front |-> 0]
NoEvict == [eid |-> 0, oldest |-> 0, newest |-> 0, op |-> "none"]

\* The three storage tiers of the storage driver.
QUARANTINE == "quarantine"
PERM == "perm"
REJECT == "reject"

\* What the storage driver returns for an object: its url.
UrlOf(tier, payload_id) == "http://" \o tier \o "/" \o payload_id

-----------------------------------------------------------------------------
(* produce_queue = collections.deque([], maxlen)                           *)

\* An append that does not bound the deque.
AppendUnbounded(q, e) == q \o <<e>>

\* deque.append(e): add at the right; a full deque first discards its
\* leftmost element.
DequeAppend(q, e) ==
    IF Len(q) >= QueueMaxLen THEN Tail(q) \o <<e>> ELSE q \o <<e>>

\* A re-insertion that puts the event at the right end instead of the left.
ReinsertAtRight(q, e) ==
    IF Len(q) >= QueueMaxLen THEN Tail(q) \o <<e>> ELSE q \o <<e>>

\* A re-insertion that is forgotten: the deque is left as it is.
ReinsertNothing(q, e) == q

\* deque.appendleft(e): add at the left; a full deque first discards its
\* rightmost element.
DequeAppendLeft(q, e) ==
    IF Len(q) >= QueueMaxLen THEN <<e>> \o SubSeq(q, 1, Len(q) - 1) ELSE <<e>> \o q

Eids(q) == {q[i].eid : i \in 1..Len(q)}

\* The serial numbers an insertion into q removed, given the result q2 and
\* the inserted event e.
Discarded(q, q2) == Eids(q) \ Eids(q2)

\* The record kept of a discard: the event discarded, and the oldest and the
\* newest event (by enqueue order) the buffer held when it happened.
EvictRecord(q, q2, op) ==
    [eid    |-> CHOOSE x \in Discarded(q, q2) : TRUE,
     oldest |-> CHOOSE x \in Eids(q) : \A y \in Eids(q) : x <= y,
     newest |-> CHOOSE x \in Eids(q) : \A y \in Eids(q) : x >= y,
     op     |-> op]

\* A handler's produce_queue.append(ev): the event gets the next serial
\* number; the histories record the call and what the deque discarded.
Enqueue(ev, src) ==
    LET e  == [eid |-> nextEid, topic |-> ev.topic, msg |-> ev.msg]
        q2 == DequeAppend(produce_queue, e)
        gone == Discarded(produce_queue, q2)
    IN  /\ produce_queue' = q2
        /\ nextEid' = nextEid + 1
        /\ evicted' = evicted \cup gone
        /\ lastEvict' = IF gone = {} THEN lastEvict
                        ELSE EvictRecord(produce_queue, q2, "append")
        /\ retry' = IF retry.eid \in gone THEN NoRetry ELSE retry
        /\ enqLog' = enqLog \o <<[src |-> src, ev |-> e]>>

-----------------------------------------------------------------------------
(* producer(), lines 139-181                                               *)

\* Where producer() suspends next, as [pc, q, item, n].
Suspended(pc, q, it, n) == [pc |-> pc, q |-> q, item |-> it, n |-> n]

\* A pop() in place of popleft(): the newest event is taken first.
PopRightAndSend(q, n) ==
    IF q = <<>> THEN Suspended("crashed", q, NoItem, 0)
    ELSE Suspended("sending", SubSeq(q, 1, Len(q) - 1), q[Len(q)], n)

\* Line 167 and the await of line 175: pop the leftmost event and send it; n
\* iterations are owed after this one.  popleft() on an empty deque raises
\* IndexError, which nothing catches.
PopAndSend(q, n) ==
    IF q = <<>> THEN Suspended("crashed", q, NoItem, 0)
    ELSE Suspended("sending", Tail(q), Head(q), n)

\* A for loop that runs one iteration more than the buffer holds events.
WhileTopOneMore(conn, q) ==
    IF ~conn THEN Suspended("connecting", q, NoItem, 0)
    ELSE IF q = <<>> THEN Suspended("idle", q, NoItem, 0)
    ELSE PopAndSend(q, Len(q))

\* Lines 148-166: the top of the while loop, up to the next await.
WhileTop(conn, q) ==
    IF ~conn THEN Suspended("connecting", q, NoItem, 0)
    ELSE IF q = <<>> THEN Suspended("idle", q, NoItem, 0)
    ELSE PopAndSend(q, Len(q) - 1)

\* Line 166: the next iteration of the for loop, or the end of the loop.
ForNext(conn, q, n) ==
    IF n > 0 THEN PopAndSend(q, n - 1) ELSE WhileTop(conn, q)

GoTo(s) ==
    /\ ppc' = s.pc
    /\ produce_queue' = s.q
    /\ item' = s.item
    /\ remaining' = s.n

\* Lines 147-153: the coroutine starts, clears the flag and awaits mqp.start().
ProducerBegin ==
    /\ ppc = "init"
    /\ mqp_connected' = FALSE
    /\ GoTo(WhileTop(FALSE, produce_queue))
    /\ UNCHANGED <<published, retry, nextEid, evicted, lastEvict, enqLog>>
    /\ UNCHANGED <<consumerVars, uploads, response>>

\* Lines 153-155, then 162-175: mqp.start() returned.
StartOk ==
    /\ ppc = "connecting"
    /\ mqp_connected' = TRUE
    /\ GoTo(WhileTop(TRUE, produce_queue))
    /\ UNCHANGED <<published, retry, nextEid, evicted, lastEvict, enqLog>>
    /\ UNCHANGED <<consumerVars, uploads, response>>

\* Lines 156-158: mqp.start() raised KafkaError; sleep RETRY_INTERVAL.
StartFail ==
    /\ ppc = "connecting"
    /\ ppc' = "retry_sleep"
    /\ UNCHANGED <<produce_queue, mqp_connected, item, remaining, published, retry,
                   nextEid, evicted, lastEvict, enqLog>>
    /\ UNCHANGED <<consumerVars, uploads, response>>

\* Lines 159 and 163-164: a sleep ended; continue at the top of the loop.
ProducerWake ==
    /\ ppc \in {"retry_sleep", "idle"}
    /\ GoTo(WhileTop(mqp_connected, produce_queue))
    /\ UNCHANGED <<mqp_connected, published, retry, nextEid, evicted, lastEvict,
                   enqLog>>
    /\ UNCHANGED <<consumerVars, uploads, response>>

\* Lines 175-176: send_and_wait() returned; the event is published.
PublishOk ==
    /\ ppc = "sending"
    /\ published' = published \o <<item.eid>>
    /\ retry' = NoRetry
    /\ GoTo(ForNext(mqp_connected, produce_queue, remaining))
    /\ UNCHANGED <<mqp_connected, nextEid, evicted, lastEvict, enqLog>>
    /\ UNCHANGED <<consumerVars, uploads, response>>

\* Lines 177-181: send_and_wait() raised KafkaError; clear the flag and put the
\* event back at the left of the deque.
PublishFail ==
    LET q2   == DequeAppendLeft(produce_queue, item)
        gone == Discarded(produce_queue, q2)
    IN  /\ ppc = "sending"
        /\ mqp_connected' = FALSE
        /\ evicted' = evicted \cup gone
        /\ lastEvict' = IF gone = {} THEN lastEvict
                        ELSE EvictRecord(produce_queue, q2, "appendleft")
        /\ retry' = [eid |-> item.eid, connected |-> mqp_connected',
                     front |-> IF q2 = <<>> THEN 0 ELSE Head(q2).eid]
        /\ GoTo(ForNext(FALSE, q2, remaining))
        /\ UNCHANGED <<published, nextEid, enqLog>>
        /\ UNCHANGED <<consumerVars, uploads, response>>

ProducerNext ==
    \/ ProducerBegin
    \/ StartOk
    \/ StartFail
    \/ ProducerWake
    \/ PublishOk
    \/ PublishFail

-----------------------------------------------------------------------------
(* UploadHandler, lines 245-428                                            *)

\* MAX_LENGTH (line 46) and STORAGE_UPLOAD_TIMEOUT (line 54) are read from the
\* environment; the model runs the service configured with these values.
MAX_LENGTH == 2
STORAGE_UPLOAD_TIMEOUT == 1

\* A content type is its sequence of dot-delimited segments.  NameTokens are
\* the segments used that match [a-z0-9-]+.
NameTokens == {"demo", "testsvc"}
ArchiveTokens == {n \o "+" \o x : n \in NameTokens, x \in {"tgz", "zip"}}

\* re.search(content_regex, content_type) is not None, line 43 and 257.
MatchesContentRegex(ct) ==
    /\ Len(ct) = 4
    /\ ct[1] = "application/vnd"
    /\ ct[2] = "redhat"
    /\ ct[3] \in NameTokens
    /\ ct[4] \in ArchiveTokens

\* split_content(), lines 91-101: content.split('.')[2].
split_content(ct) == ct[3]

\* The requests the model sends: the upload part's content type (NoUpload when
\* the request has no upload field: the empty sequence), the x-rh-insights-request-id header (None
\* when absent) and the declared Content-Length.
NoUpload == <<>>
ContentTypes == {<<"application/vnd", "redhat", "demo", "testsvc+tgz">>,
                 <<"vnd", "redhat", "demo", "testsvc+tgz">>}
PayloadIds == {"a", "b"}
Lengths == {MAX_LENGTH - 1, MAX_LENGTH, MAX_LENGTH + 1}
Requests == [upload : ContentTypes \cup {NoUpload},
             payload_id : PayloadIds \cup {None},
             length : Lengths]

\* A size check that lets a body of exactly MAX_LENGTH through.
upload_validation_gt(req) ==
    IF req.length > MAX_LENGTH THEN [status |-> 413, checks |-> <<"size">>]
    ELSE IF ~MatchesContentRegex(req.upload)
         THEN [status |-> 415, checks |-> <<"size", "content-type">>]
    ELSE [status |-> 0, checks |-> <<"size", "content-type">>]

\* upload_validation(), lines 248-259: the status to answer (0 for none) and
\* the checks it evaluated.
upload_validation(req) ==
    IF req.length >= MAX_LENGTH THEN [status |-> 413, checks |-> <<"size">>]
    ELSE IF ~MatchesContentRegex(req.upload)
         THEN [status |-> 415, checks |-> <<"size", "content-type">>]
    ELSE [status |-> 0, checks |-> <<"size", "content-type">>]

\* post() with the size and content-type checks made before the identifier
\* check.
PostChecksValidationFirst(req) ==
    IF req.upload = NoUpload THEN [status |-> 415, checks |-> <<"file">>]
    ELSE IF upload_validation(req).status # 0
         THEN [status |-> upload_validation(req).status,
               checks |-> <<"file">> \o upload_validation(req).checks]
    ELSE IF req.payload_id = None
         THEN [status |-> 400,
               checks |-> <<"file">> \o upload_validation(req).checks \o <<"id">>]
    ELSE [status |-> 0,
          checks |-> <<"file">> \o upload_validation(req).checks \o <<"id">>]

\* The checks post() evaluates for a request, in order, and the status it
\* answers (0 when the request passes): lines 389-408.
PostChecks(req) ==
    IF req.upload = NoUpload THEN [status |-> 415, checks |-> <<"file">>]
    ELSE IF req.payload_id = None THEN [status |-> 400, checks |-> <<"file", "id">>]
    ELSE [status |-> upload_validation(req).status,
          checks |-> <<"file", "id">> \o upload_validation(req).checks]

NoRequest == [upload |-> NoUpload, payload_id |-> None, length |-> 0]

NewUpload == [st |-> "new", req |-> NoRequest, status |-> 0, checks |-> <<>>,
              count |-> 0, success |-> FALSE, url |-> None,
              tmp |-> 0, writes |-> 0, removes |-> 0]

Set(r, u) == uploads' = [uploads EXCEPT ![r] = u]

\* post(), lines 387-419: a request arrives; it is answered at once, or its
\* body goes to write_data() in the executor.
Post(r, req) ==
    LET v == PostChecks(req)
        u == [uploads[r] EXCEPT !.req = req, !.checks = v.checks]
    IN  /\ uploads[r].st = "new"
        /\ \A k \in 1..(r - 1) : uploads[k].st # "new"
        /\ IF v.status # 0
           THEN Set(r, [u EXCEPT !.st = "responded", !.status = v.status])
           ELSE Set(r, [u EXCEPT !.st = "staging"])
        /\ UNCHANGED <<producerVars, consumerVars, queueVars, response>>

\* A post() that schedules the continuation without having set the status.
StagedWithoutStatus(r) ==
    /\ uploads[r].st = "staging"
    /\ Set(r, [uploads[r] EXCEPT !.st = "accepted", !.tmp = @ + 1])
    /\ UNCHANGED <<producerVars, consumerVars, queueVars, response>>

\* post(), lines 419-428: write_data() returned the temp file's name; set the
\* status, schedule process_upload() and return.
Staged(r) ==
    /\ uploads[r].st = "staging"
    /\ Set(r, [uploads[r] EXCEPT !.st = "accepted", !.tmp = @ + 1, !.status = 202])
    /\ UNCHANGED <<producerVars, consumerVars, queueVars, response>>

\* process_upload() and upload(), lines 334-349 and 281-289: the continuation
\* starts and awaits storage.write() in the executor.
ProcessUploadBegin(r) ==
    /\ uploads[r].st = "accepted"
    /\ Set(r, [uploads[r] EXCEPT !.st = "writing", !.writes = @ + 1])
    /\ UNCHANGED <<producerVars, consumerVars, queueVars, response>>

\* Number of iterations of the polling loop, line 296.
PollLimit == STORAGE_UPLOAD_TIMEOUT * 10

\* upload(), lines 296-302: iteration `count` of the polling loop, where
\* `complete` is what callback.percentage >= 100 reads.
PollStep(u, complete) ==
    IF u.count >= PollLimit THEN [u EXCEPT !.st = "removing"]
    ELSE IF complete THEN [u EXCEPT !.st = "removing", !.success = TRUE]
    ELSE [u EXCEPT !.st = "polling"]

\* Line 300: the sleep between two looks at the callback, in milliseconds.
PollIntervalMs == 10

\* upload(), lines 287-300: storage.write() returned (url, callback).
WriteReturn(r) ==
    /\ uploads[r].st = "writing"
    /\ \E complete \in BOOLEAN :
         Set(r, PollStep([uploads[r] EXCEPT
                            !.url = UrlOf(QUARANTINE, uploads[r].req.payload_id)],
                         complete))
    /\ UNCHANGED <<producerVars, consumerVars, queueVars, response>>

\* upload(), lines 290-302: storage.write() raised.
WriteRaise(r) ==
    /\ uploads[r].st = "writing"
    /\ Set(r, [uploads[r] EXCEPT !.st = "removing"])
    /\ UNCHANGED <<producerVars, consumerVars, queueVars, response>>

\* upload(), lines 296-302: the sleep of line 300 ended.
PollWake(r) ==
    /\ uploads[r].st = "polling"
    /\ \E complete \in BOOLEAN :
         Set(r, PollStep([uploads[r] EXCEPT !.count = @ + 1], complete))
    /\ UNCHANGED <<producerVars, consumerVars, queueVars, response>>

\* A "received" event that carries the placeholder identifier of line 60.
ReceivedEventPlaceholder(u) ==
    [topic |-> "platform.upload." \o split_content(u.req.upload),
     msg   |-> [rh_account |-> "000001", principal |-> "default_principal",
                validation |-> 1, payload_id |-> "1234567890abcdef",
                hash |-> "1234567890abcdef", size |-> u.req.length,
                service |-> split_content(u.req.upload), url |-> u.url]]

\* The "received" event of lines 334-354.
ReceivedEvent(u) ==
    [topic |-> "platform.upload." \o split_content(u.req.upload),
     msg   |-> [rh_account |-> "000001", principal |-> "default_principal",
                validation |-> 1, payload_id |-> u.req.payload_id,
                hash |-> u.req.payload_id, size |-> u.req.length,
                service |-> split_content(u.req.upload), url |-> u.url]]

\* An upload() that leaves the temporary file in place when the write failed.
RemoveReturnKeepsFileOnFailure(r) ==
    LET u == [uploads[r] EXCEPT !.st = "done",
                                !.removes = IF uploads[r].success THEN @ + 1 ELSE @]
    IN  /\ uploads[r].st = "removing"
        /\ Set(r, u)
        /\ IF u.success /\ u.url # None
           THEN Enqueue(ReceivedEvent(u), [kind |-> "upload", batch |-> 0, idx |-> r])
           ELSE UNCHANGED <<queueVars, retry>>
        /\ UNCHANGED <<mqp_connected, ppc, item, remaining, published>>
        /\ UNCHANGED <<consumerVars, response>>

\* upload() lines 302-318 and process_upload() lines 349-361: os.remove()
\* returned; on success the "received" event is appended.
RemoveReturn(r) ==
    LET u == [uploads[r] EXCEPT !.st = "done", !.removes = @ + 1]
    IN  /\ uploads[r].st = "removing"
        /\ Set(r, u)
        /\ IF u.success /\ u.url # None
           THEN Enqueue(ReceivedEvent(u), [kind |-> "upload", batch |-> 0, idx |-> r])
           ELSE UNCHANGED <<queueVars, retry>>
        /\ UNCHANGED <<mqp_connected, ppc, item, remaining, published>>
        /\ UNCHANGED <<consumerVars, response>>

UploadNext ==
    \/ \E r \in 1..MaxUploads : \E req \in Requests : Post(r, req)
    \/ \E r \in 1..MaxUploads : Staged(r)
    \/ \E r \in 1..MaxUploads : ProcessUploadBegin(r)
    \/ \E r \in 1..MaxUploads : WriteReturn(r)
    \/ \E r \in 1..MaxUploads : WriteRaise(r)
    \/ \E r \in 1..MaxUploads : PollWake(r)
    \/ \E r \in 1..MaxUploads : RemoveReturn(r)

-----------------------------------------------------------------------------
(* consumer() and handle_file(), lines 110-227                             *)

\* Strings whose characters the code inspects are sequences of characters.
Success == <<"s", "u", "c", "c", "e", "s", "s">>
Failure == <<"f", "a", "i", "l", "u", "r", "e">>

\* str.lower() on the characters the model uses.
LowerChar(c) ==
    CASE c = "S" -> "s" [] c = "U" -> "u" [] c = "C" -> "c" [] c = "E" -> "e"
      [] c = "F" -> "f" [] c = "A" -> "a" [] c = "I" -> "i" [] c = "L" -> "l"
      [] c = "R" -> "r" [] OTHER -> c
Lower(str) == [i \in 1..Len(str) |-> LowerChar(str[i])]

\* A JSON value whose type the code depends on: a string or a number, with
\* its text.
Str(chars) == [type |-> "string", text |-> chars]
Num(chars) == [type |-> "number", text |-> chars]

\* The records the validation topic delivers.  A record is text that is not
\* JSON, or a JSON object: a function from its keys to their values.
NotJson == [json |-> FALSE]
Object(d) == [json |-> TRUE, data |-> d]
Records ==
    { NotJson,
      Object([x \in {} |-> None]),
      Object([payload_id |-> "a", validation |-> Str(Success)]),
      Object([hash |-> "b", validation |-> Str(<<"S", "U", "C", "C", "E", "S", "S">>)]),
      Object([payload_id |-> "a", hash |-> "b",
              validation |-> Str(<<"F", "a", "i", "l", "u", "r", "e">>)]),
      Object([payload_id |-> "b", validation |-> Str(Failure)]),
      Object([payload_id |-> "a", validation |-> Str(<<"o", "k">>)]),
      Object([payload_id |-> "a"]),
      Object([payload_id |-> "b", validation |-> Num(<<"1">>)]) }

\* Sequences over S of length at most n.
SeqUpTo(S, n) == UNION {[1..k -> S] : k \in 0..n}

\* An identifier taken from "hash" before "payload_id".
PayloadIdOfHashFirst(data) ==
    IF "hash" \in DOMAIN data THEN data.hash ELSE data.payload_id

\* Line 205.
PayloadIdOf(data) ==
    IF "payload_id" \in DOMAIN data THEN data.payload_id ELSE data.hash

\* A dispatch that compares the result without lower().
DispatchCaseSensitive(rec) ==
    IF ~rec.json THEN [do |-> "skip"]
    ELSE IF "payload_id" \notin DOMAIN rec.data /\ "hash" \notin DOMAIN rec.data
         THEN [do |-> "return"]
    ELSE IF "validation" \notin DOMAIN rec.data THEN [do |-> "raise"]
    ELSE IF rec.data.validation.type # "string" THEN [do |-> "raise"]
    ELSE IF rec.data.validation.text = Success
         THEN [do |-> "copy", to |-> PERM, payload_id |-> PayloadIdOf(rec.data)]
    ELSE IF rec.data.validation.text = Failure
         THEN [do |-> "copy", to |-> REJECT, payload_id |-> PayloadIdOf(rec.data)]
    ELSE [do |-> "skip"]

\* A dispatch that leaves the handler at a record that is not JSON.
DispatchStopOnBadJson(rec) ==
    IF ~rec.json THEN [do |-> "return"]
    ELSE IF "payload_id" \notin DOMAIN rec.data /\ "hash" \notin DOMAIN rec.data
         THEN [do |-> "return"]
    ELSE IF "validation" \notin DOMAIN rec.data THEN [do |-> "raise"]
    ELSE IF rec.data.validation.type # "string" THEN [do |-> "raise"]
    ELSE IF Lower(rec.data.validation.text) = Success
         THEN [do |-> "copy", to |-> PERM, payload_id |-> PayloadIdOf(rec.data)]
    ELSE IF Lower(rec.data.validation.text) = Failure
         THEN [do |-> "copy", to |-> REJECT, payload_id |-> PayloadIdOf(rec.data)]
    ELSE [do |-> "skip"]

\* What handle_file() does with one record before it awaits or moves on,
\* lines 194-227: "skip" (continue), "return", "raise", or "copy" to a tier.
Dispatch(rec) ==
    IF ~rec.json THEN [do |-> "skip"]
    ELSE IF "payload_id" \notin DOMAIN rec.data /\ "hash" \notin DOMAIN rec.data
         THEN [do |-> "return"]
    ELSE IF "validation" \notin DOMAIN rec.data THEN [do |-> "raise"]
    ELSE IF rec.data.validation.type # "string" THEN [do |-> "raise"]
    ELSE IF Lower(rec.data.validation.text) = Success
         THEN [do |-> "copy", to |-> PERM, payload_id |-> PayloadIdOf(rec.data)]
    ELSE IF Lower(rec.data.validation.text) = Failure
         THEN [do |-> "copy", to |-> REJECT, payload_id |-> PayloadIdOf(rec.data)]
    ELSE [do |-> "skip"]

\* handle_file() run from record i of the batch up to its next await, its
\* return or its exception: where consumer() is then suspended, at which record.
RECURSIVE HandleFrom(_, _)
HandleFrom(batch, i) ==
    IF i > Len(batch) THEN [pc |-> "sleeping", idx |-> i]
    ELSE LET d == Dispatch(batch[i])
         IN  CASE d.do = "skip"   -> HandleFrom(batch, i + 1)
               [] d.do = "return" -> [pc |-> "sleeping", idx |-> i]
               [] d.do = "raise"  -> [pc |-> "dead", idx |-> i]
               [] d.do = "copy"   -> [pc |-> "copying", idx |-> i]

\* The storage.copy call a suspension at "copying" has made.
CopyCall(batch, i) ==
    [idx |-> i, from |-> QUARANTINE, to |-> Dispatch(batch[i]).to,
     payload_id |-> Dispatch(batch[i]).payload_id]

Resume(h, log) ==
    /\ cpc' = h.pc
    /\ idx' = h.idx
    /\ copyLog' = IF h.pc = "copying" THEN log \o <<CopyCall(msgs', h.idx)>> ELSE log

\* Lines 113-119: the coroutine starts, clears the flag and awaits mqc.start().
ConsumerBegin ==
    /\ cpc = "init"
    /\ mqc_connected' = FALSE
    /\ cpc' = "connecting"
    /\ UNCHANGED <<msgs, idx, batches, copyLog>>
    /\ UNCHANGED <<producerVars, queueVars, uploads, response>>

\* Lines 119-121 and 129: mqc.start() returned; await getmany().
ConsumerStartOk ==
    /\ cpc = "connecting"
    /\ mqc_connected' = TRUE
    /\ cpc' = "polling"
    /\ UNCHANGED <<msgs, idx, batches, copyLog>>
    /\ UNCHANGED <<producerVars, queueVars, uploads, response>>

\* Lines 122-124: mqc.start() raised KafkaError; sleep RETRY_INTERVAL.
ConsumerStartFail ==
    /\ cpc = "connecting"
    /\ cpc' = "retry_sleep"
    /\ UNCHANGED <<mqc_connected, msgs, idx, batches, copyLog>>
    /\ UNCHANGED <<producerVars, queueVars, uploads, response>>

\* Lines 125 and 136, then 114-129: a sleep ended; connect or poll.
ConsumerWake ==
    /\ cpc \in {"retry_sleep", "sleeping"}
    /\ cpc' = IF mqc_connected THEN "polling" ELSE "connecting"
    /\ UNCHANGED <<mqc_connected, msgs, idx, batches, copyLog>>
    /\ UNCHANGED <<producerVars, queueVars, uploads, response>>

\* Lines 129-132: getmany() returned a batch of the validation topic and
\* handle_file() runs up to its first await.
GetManyReturn(batch) ==
    /\ cpc = "polling"
    /\ batches < MaxBatches
    /\ batches' = batches + 1
    /\ msgs' = batch
    /\ Resume(HandleFrom(batch, 1), <<>>)
    /\ UNCHANGED mqc_connected
    /\ UNCHANGED <<producerVars, queueVars, uploads, response>>

\* Lines 133-136: getmany() raised KafkaError.
GetManyFail ==
    /\ cpc = "polling"
    /\ mqc_connected' = FALSE
    /\ cpc' = "sleeping"
    /\ UNCHANGED <<msgs, idx, batches, copyLog>>
    /\ UNCHANGED <<producerVars, queueVars, uploads, response>>

\* The "available" event of lines 214-220.
AvailableEvent(url, payload_id) ==
    [topic |-> "platform.upload.available",
     msg   |-> [url |-> url, payload_id |-> payload_id]]

\* Lines 210-220 or 223-225, then the loop of line 193: storage.copy()
\* returned the url; a success verdict appends the "available" event.
CopyReturn ==
    LET c == CopyCall(msgs, idx)
    IN  /\ cpc = "copying"
        /\ IF c.to = PERM
           THEN Enqueue(AvailableEvent(UrlOf(PERM, c.payload_id), c.payload_id),
                        [kind |-> "verdict", batch |-> batches, idx |-> idx])
           ELSE UNCHANGED <<queueVars, retry>>
        /\ msgs' = msgs
        /\ Resume(HandleFrom(msgs, idx + 1), copyLog)
        /\ UNCHANGED <<mqc_connected, batches>>
        /\ UNCHANGED <<mqp_connected, ppc, item, remaining, published,
                       uploads, response>>

\* A handler that appends the "available" event although the copy raised.
CopyRaiseThenEnqueue ==
    LET c == CopyCall(msgs, idx)
    IN  /\ cpc = "copying"
        /\ cpc' = "dead"
        /\ IF c.to = PERM
           THEN Enqueue(AvailableEvent(None, c.payload_id),
                        [kind |-> "verdict", batch |-> batches, idx |-> idx])
           ELSE UNCHANGED <<queueVars, retry>>
        /\ UNCHANGED <<mqc_connected, msgs, idx, batches, copyLog>>
        /\ UNCHANGED <<mqp_connected, ppc, item, remaining, published,
                       uploads, response>>

\* A consumer loop that takes an exception of storage.copy for a broker error.
CopyRaiseAsBrokerError ==
    /\ cpc = "copying"
    /\ cpc' = "sleeping"
    /\ mqc_connected' = FALSE
    /\ UNCHANGED <<msgs, idx, batches, copyLog>>
    /\ UNCHANGED <<producerVars, queueVars, uploads, response>>

\* Lines 210 and 223: storage.copy() raised.  The exception is no KafkaError,
\* so it leaves handle_file() and consumer() (lines 132-133): the coroutine ends.
CopyRaise ==
    /\ cpc = "copying"
    /\ cpc' = "dead"
    /\ UNCHANGED <<mqc_connected, msgs, idx, batches, copyLog>>
    /\ UNCHANGED <<producerVars, queueVars, uploads, response>>

ConsumerNext ==
    \/ ConsumerBegin
    \/ ConsumerStartOk
    \/ ConsumerStartFail
    \/ ConsumerWake
    \/ \E batch \in SeqUpTo(Records, MaxBatchLen) : GetManyReturn(batch)
    \/ GetManyFail
    \/ CopyReturn
    \/ CopyRaise

-----------------------------------------------------------------------------
(* The status endpoint, lines 445-469                                      *)

UpDown(b) == IF b THEN "up" ELSE "down"

\* No request to the status endpoint has been answered yet.
NoResponse ==
    [upload_service |-> "none", message_queue_producer |-> "none",
     message_queue_consumer |-> "none"]

\* StatusHandler.get(), lines 447-469: the two flags are read into the body
\* (lines 449-451, 462-465).  The three storage keys, which come from
\* storage.up_check(), are left out of the modelled body.
StatusGet ==
    /\ response' = [upload_service |-> "up",
                    message_queue_producer |-> UpDown(mqp_connected),
                    message_queue_consumer |-> UpDown(mqc_connected)]
    /\ UNCHANGED <<producerVars, consumerVars, queueVars, uploads>>

-----------------------------------------------------------------------------
(* Specifications                                                          *)

\* The service as main() starts it (lines 482-489): nothing queued, both
\* flags false (lines 106-107), both coroutines spawned and no request yet.
Init ==
    /\ produce_queue = <<>>
    /\ mqp_connected = FALSE
    /\ mqc_connected = FALSE
    /\ ppc = "init"
    /\ item = NoItem
    /\ remaining = 0
    /\ cpc = "init"
    /\ msgs = <<>>
    /\ idx = 0
    /\ batches = 0
    /\ uploads = [r \in 1..MaxUploads |-> NewUpload]
    /\ nextEid = 1
    /\ published = <<>>
    /\ evicted = {}
    /\ lastEvict = NoEvict
    /\ retry = NoRetry
    /\ copyLog = <<>>
    /\ enqLog = <<>>
    /\ response = NoResponse

\* The upload handler alone: requests arrive and their continuations run.
SpecUpload == Init /\ [][UploadNext]_vars

\* The consumer loop and the validation handler alone.
SpecVerdict == Init /\ [][ConsumerNext]_vars

\* The outbound buffer with its writers and its reader.  The state starts
\* with every writer at the await before its append: each upload
\* continuation awaits os.remove() after a completed write (line 302), and
\* handle_file() awaits storage.copy() for the first of a batch of success
\* verdicts (line 210).  The producer loop starts from line 147.
AcceptedRequest(r) ==
    [upload |-> <<"application/vnd", "redhat", "demo", "testsvc+tgz">>,
     payload_id |-> IF r % 2 = 1 THEN "a" ELSE "b",
     length |-> MAX_LENGTH - 1]

AwaitingRemove(r) ==
    [NewUpload EXCEPT !.st = "removing", !.req = AcceptedRequest(r),
                      !.status = 202, !.checks = PostChecks(AcceptedRequest(r)).checks,
                      !.success = TRUE,
                      !.url = UrlOf(QUARANTINE, AcceptedRequest(r).payload_id),
                      !.tmp = 1, !.writes = 1]

SuccessBatch ==
    [i \in 1..MaxBatchLen |-> Object([payload_id |-> "a", validation |-> Str(Success)])]

InitBuffer ==
    /\ produce_queue = <<>>
    /\ mqp_connected = FALSE
    /\ mqc_connected = TRUE
    /\ ppc = "init"
    /\ item = NoItem
    /\ remaining = 0
    /\ cpc = "copying"
    /\ msgs = SuccessBatch
    /\ idx = 1
    /\ batches = 1
    /\ uploads = [r \in 1..MaxUploads |-> AwaitingRemove(r)]
    /\ nextEid = 1
    /\ published = <<>>
    /\ evicted = {}
    /\ lastEvict = NoEvict
    /\ retry = NoRetry
    /\ copyLog = <<CopyCall(SuccessBatch, 1)>>
    /\ enqLog = <<>>
    /\ response = NoResponse

WriterNext ==
    \/ \E r \in 1..MaxUploads : RemoveReturn(r)
    \/ CopyReturn

Next ==
    \/ ProducerNext
    \/ WriterNext

Spec == InitBuffer /\ [][Next]_vars

\* The same, where the producer loop keeps being scheduled and the broker
\* eventually accepts a handshake and a publish.
FairSpec ==
    /\ Spec
    /\ WF_vars(ProducerNext)
    /\ SF_vars(StartOk)
    /\ SF_vars(PublishOk)

\* An upload that post() has accepted and answered, lines 419-428.
Accepted(r) ==
    [NewUpload EXCEPT !.st = "accepted", !.req = AcceptedRequest(r),
                      !.status = 202, !.checks = PostChecks(AcceptedRequest(r)).checks,
                      !.tmp = 1]

\* An upload whose continuation ended after storage.write() raised.
Failed(r) ==
    [Accepted(r) EXCEPT !.st = "done", !.writes = 1, !.removes = 1]

\* Batches of one verdict each: a "success" and a "failure".
VerdictBatches ==
    { <<Object([payload_id |-> "a", validation |-> Str(Success)])>>,
      <<Object([payload_id |-> "b", validation |-> Str(Failure)])>> }

\* The service at start with its first upload accepted and the continuations
\* of the other requests already over.
InitFlags ==
    /\ produce_queue = <<>>
    /\ mqp_connected = FALSE
    /\ mqc_connected = FALSE
    /\ ppc = "init"
    /\ item = NoItem
    /\ remaining = 0
    /\ cpc = "init"
    /\ msgs = <<>>
    /\ idx = 0
    /\ batches = 0
    /\ uploads = [r \in 1..MaxUploads |-> IF r = 1 THEN Accepted(r) ELSE Failed(r)]
    /\ nextEid = 1
    /\ published = <<>>
    /\ evicted = {}
    /\ lastEvict = NoEvict
    /\ retry = NoRetry
    /\ copyLog = <<>>
    /\ enqLog = <<>>
    /\ response = NoResponse

\* Both loops, the validation handler, the continuation of an upload and the
\* status endpoint on the one event loop.
FlagsNext ==
    \/ ProducerNext
    \/ ConsumerBegin
    \/ ConsumerStartOk
    \/ ConsumerStartFail
    \/ ConsumerWake
    \/ \E batch \in VerdictBatches : GetManyReturn(batch)
    \/ GetManyFail
    \/ CopyReturn
    \/ CopyRaise
    \/ \E r \in 1..MaxUploads :
         \/ ProcessUploadBegin(r)
         \/ WriteReturn(r)
         \/ WriteRaise(r)
         \/ PollWake(r)
         \/ RemoveReturn(r)
    \/ StatusGet

SpecFlags == InitFlags /\ [][FlagsNext]_vars

\* The payload ids of the "received" events published so far: what the
\* validation service, a consumer of the "platform.upload." + service topics,
\* has been able to observe.
ObservedIds ==
    { enqLog[k].ev.msg.payload_id :
        k \in { j \in 1..Len(enqLog) :
                  /\ enqLog[j].ev.topic # "platform.upload.available"
                  /\ \E i \in 1..Len(published) : published[i] = enqLog[j].ev.eid } }

\* The verdicts the validation service issues for the payload ids in ids: a
\* "success" that also carries a legacy "hash" and a "failure".
VerdictsFor(ids) ==
    { Object([payload_id |-> p, hash |-> h, validation |-> Str(Success)]) :
        p \in ids, h \in PayloadIds }
    \cup { Object([payload_id |-> p, validation |-> Str(Failure)]) : p \in ids }

\* Lines 129-132 with the validation service as the producer of the batch:
\* getmany() returns a verdict for a payload id the service has observed.
ValidatedReturn ==
    \E rec \in VerdictsFor(ObservedIds) : GetManyReturn(<< rec >>)

\* The uploads at the await of os.remove() after a write seen complete, the
\* producer loop at its start and the consumer loop connected, awaiting
\* getmany().
InitRoundTrip ==
    /\ produce_queue = <<>>
    /\ mqp_connected = FALSE
    /\ mqc_connected = TRUE
    /\ ppc = "init"
    /\ item = NoItem
    /\ remaining = 0
    /\ cpc = "polling"
    /\ msgs = <<>>
    /\ idx = 0
    /\ batches = 0
    /\ uploads = [r \in 1..MaxUploads |-> AwaitingRemove(r)]
    /\ nextEid = 1
    /\ published = <<>>
    /\ evicted = {}
    /\ lastEvict = NoEvict
    /\ retry = NoRetry
    /\ copyLog = <<>>
    /\ enqLog = <<>>
    /\ response = NoResponse

\* Upload continuations, the producer loop, the validation service and the
\* validation handler: the round trip of a payload id.
RoundTripNext ==
    \/ \E r \in 1..MaxUploads : RemoveReturn(r)
    \/ ProducerNext
    \/ ValidatedReturn
    \/ CopyReturn
    \/ ConsumerWake

SpecRoundTrip == InitRoundTrip /\ [][RoundTripNext]_vars

-----------------------------------------------------------------------------
(* The outbound buffer and the producer loop                               *)

\* Number of events the writers of Spec enqueue.
MaxEvents == MaxUploads + MaxBatchLen

IsPublished(e) == \E i \in 1..Len(published) : published[i] = e

\* C1: in every reachable state the outbound buffer holds at most its
\* capacity of events.
C1_BufferWithinCapacity == Len(produce_queue) <= QueueMaxLen

\* A full buffer that has overflowed, with the producer loop draining it.
C1_Witness ==
    /\ Len(produce_queue) = QueueMaxLen
    /\ evicted # {}
    /\ published # <<>>

\* C2: whenever the buffer discards an event because it is full, the
\* discarded event is the oldest one it held and not the newest, whichever
\* operation inserted.
C2_DiscardsOldest ==
    lastEvict.eid # 0 =>
        /\ lastEvict.eid = lastEvict.oldest
        /\ (lastEvict.oldest # lastEvict.newest => lastEvict.eid # lastEvict.newest)

\* C3: after a publish of event e failed, producer-connected was cleared, e
\* was put back at the front of the buffer, and for as long as e is not
\* discarded by overflow it stays first: e is the event at the front of the
\* buffer or the event the loop is sending, so the next event published is e.
C3_FailedEventIsNext ==
    retry.eid # 0 =>
        /\ ~retry.connected
        /\ retry.front = retry.eid
        /\ retry.eid \notin evicted
        /\ ~IsPublished(retry.eid)
        /\ IF ppc = "sending" THEN item.eid = retry.eid
           ELSE produce_queue # <<>> /\ Head(produce_queue).eid = retry.eid

\* The loop has reconnected after a failed publish and is sending the failed
\* event again, with other events waiting behind it.
C3_Witness ==
    /\ retry.eid # 0
    /\ mqp_connected
    /\ ppc = "sending"
    /\ item.eid = retry.eid
    /\ produce_queue # <<>>

\* Every event enqueued so far has been published or was discarded.
AllSettled ==
    \A e \in 1..MaxEvents : e < nextEid => (IsPublished(e) \/ e \in evicted)

\* C4: under the fairness of FairSpec, every event enqueued is eventually
\* published at least once unless the buffer discarded it: at any time there
\* is a later time by which every event enqueued so far has been published
\* or discarded (both are permanent, so no event is left waiting for ever).
C4_AtLeastOnce == []<>AllSettled

\* Every event was enqueued, some were discarded on overflow and every other
\* event has been published.
C4_Witness ==
    /\ nextEid = MaxEvents + 1
    /\ evicted # {}
    /\ \A e \in 1..MaxEvents : IsPublished(e) \/ e \in evicted
    /\ \E e \in 1..MaxEvents : IsPublished(e)

\* C11: no publish is attempted while producer-connected is false: after a
\* failed publish the loop sends nothing until a handshake has succeeded.
C11_NoPublishWhileDisconnected == ppc = "sending" => mqp_connected

\* The position of event e in the sequence of published events, 0 if none.
PublishedAt(e) ==
    IF IsPublished(e) THEN CHOOSE i \in 1..Len(published) : published[i] = e ELSE 0

\* C12: events are published in the order they were enqueued: when an event
\* is published, every event enqueued before it has been published before it
\* or was discarded by the buffer; and no event is published twice.
C12_InsertionOrder ==
    /\ \A i, j \in 1..Len(published) : i < j => published[i] < published[j]
    /\ \A j \in 1..Len(published) : \A e1 \in 1..(published[j] - 1) :
         e1 \in evicted \/ (PublishedAt(e1) # 0 /\ PublishedAt(e1) < j)

\* After earlier publishes and an overflow, a publish failed; the loop has
\* reconnected and sends the failed event again while a newer event waits.
C12_Witness ==
    /\ published # <<>>
    /\ evicted # {}
    /\ retry.eid # 0
    /\ mqp_connected
    /\ ppc = "sending" /\ item.eid = retry.eid
    /\ produce_queue # <<>> /\ Head(produce_queue).eid > item.eid
    /\ nextEid = MaxEvents + 1

\* C20: the producer loop never pops from an empty buffer: while it drains,
\* the buffer holds at least as many events as the for loop still owes
\* iterations.
C20_NeverPopsEmpty ==
    /\ ppc # "crashed"
    /\ ppc = "sending" => Len(produce_queue) >= remaining

\* In the middle of a drain, after an overflow during an awaited publish and a
\* re-insertion into the full buffer, iterations are still owed.
C20_Witness ==
    /\ ppc = "sending"
    /\ remaining > 0
    /\ retry.eid # 0
    /\ lastEvict.op = "appendleft"
    /\ Len(produce_queue) = remaining

-----------------------------------------------------------------------------
(* The validation handler and the consumer loop                            *)

UpperChar(c) ==
    CASE c = "s" -> "S" [] c = "u" -> "U" [] c = "c" -> "C" [] c = "e" -> "E"
      [] c = "f" -> "F" [] c = "a" -> "A" [] c = "i" -> "I" [] c = "l" -> "L"
      [] c = "r" -> "R" [] OTHER -> c

\* The verdict's result is the given lower-case word, in any mix of cases.
ResultIs(rec, word) ==
    /\ rec.data.validation.type = "string"
    /\ Len(rec.data.validation.text) = Len(word)
    /\ \A k \in 1..Len(word) :
         rec.data.validation.text[k] \in {word[k], UpperChar(word[k])}

\* A record that is a verdict: an object with an identifier and a result.
IsVerdict(rec) ==
    /\ rec.json
    /\ "payload_id" \in DOMAIN rec.data \/ "hash" \in DOMAIN rec.data
    /\ "validation" \in DOMAIN rec.data

VerdictId(rec) ==
    IF "payload_id" \in DOMAIN rec.data THEN rec.data.payload_id ELSE rec.data.hash

\* The handler awaits the copy of record i, has finished with record i, or
\* was ended by the copy of record i.
InCopy(i) == cpc = "copying" /\ idx = i
CopyRaised(i) == cpc = "dead" /\ idx = i /\ Dispatch(msgs[i]).do = "copy"
Completed(i) == i < idx \/ (i = idx /\ cpc # "copying")

CopiesOf(i) == {k \in 1..Len(copyLog) : copyLog[k].idx = i}
EventsOf(i) ==
    {k \in 1..Len(enqLog) :
        enqLog[k].src = [kind |-> "verdict", batch |-> batches, idx |-> i]}

OneCopy(i, tier) ==
    /\ Cardinality(CopiesOf(i)) = 1
    /\ \A k \in CopiesOf(i) :
         copyLog[k] = [idx |-> i, from |-> QUARANTINE, to |-> tier,
                       payload_id |-> VerdictId(msgs[i])]

OneAvailableEvent(i) ==
    /\ Cardinality(EventsOf(i)) = 1
    /\ \A k \in EventsOf(i) :
         /\ enqLog[k].ev.topic = "platform.upload.available"
         /\ enqLog[k].ev.msg = [url |-> UrlOf(PERM, VerdictId(msgs[i])),
                                payload_id |-> VerdictId(msgs[i])]

\* C5: for every verdict the handler handles, a result of "success" in any
\* case makes exactly one copy QUARANTINE -> PERM of its payload id and, once
\* the copy has returned, exactly one "available" event with that id and the
\* copy's url; "failure" makes exactly one copy QUARANTINE -> REJECT and no
\* event; any other result makes no copy and no event.
C5_VerdictDispatch ==
    \A i \in 1..Len(msgs) :
        IsVerdict(msgs[i]) =>
            IF ResultIs(msgs[i], Success)
            THEN /\ (InCopy(i) \/ Completed(i)) => OneCopy(i, PERM)
                 /\ (InCopy(i) \/ CopyRaised(i)) => EventsOf(i) = {}
                 /\ (Completed(i) /\ ~CopyRaised(i)) => OneAvailableEvent(i)
            ELSE IF ResultIs(msgs[i], Failure)
            THEN /\ (InCopy(i) \/ Completed(i)) => OneCopy(i, REJECT)
                 /\ EventsOf(i) = {}
            ELSE /\ CopiesOf(i) = {}
                 /\ EventsOf(i) = {}

\* A batch whose first verdict is "SUCCESS" by its hash field and whose second
\* is "Failure": both handled, one event enqueued.
C5_Witness ==
    /\ Len(msgs) = 2
    /\ IsVerdict(msgs[1]) /\ ResultIs(msgs[1], Success)
    /\ msgs[1].data.validation.text # Success
    /\ "payload_id" \notin DOMAIN msgs[1].data
    /\ IsVerdict(msgs[2]) /\ ResultIs(msgs[2], Failure)
    /\ Completed(2) /\ cpc = "sleeping"
    /\ OneAvailableEvent(1)
    /\ OneCopy(2, REJECT)

\* A record that is JSON but has neither "payload_id" nor "hash".
MissingId(rec) ==
    /\ rec.json
    /\ "payload_id" \notin DOMAIN rec.data
    /\ "hash" \notin DOMAIN rec.data

\* handle_file() has come back to the consumer loop for the current batch.
HandlerReturned == msgs # <<>> /\ cpc \notin {"copying", "dead"}

\* Every verdict of the batch with result "success" or "failure" has had its
\* copy and, for "success", its event.
VerdictsHandled ==
    \A j \in 1..Len(msgs) :
        IsVerdict(msgs[j]) =>
            /\ ResultIs(msgs[j], Success) => OneCopy(j, PERM) /\ OneAvailableEvent(j)
            /\ ResultIs(msgs[j], Failure) => OneCopy(j, REJECT)

\* C13: a record with neither identifier causes no copy and no event, and
\* the other records of its batch are handled as if it were absent: once the
\* handler has returned, every verdict of the batch has been handled.
C13_MissingIdOnlyDropsItself ==
    \A i \in 1..Len(msgs) :
        MissingId(msgs[i]) =>
            /\ CopiesOf(i) = {}
            /\ EventsOf(i) = {}
            /\ HandlerReturned => VerdictsHandled

\* C14: a record that is not JSON causes no copy and no event, the handler
\* neither ends nor stops at it, and the other records of its batch are still
\* handled: once the handler has returned from a batch in which every JSON
\* record carries an identifier, every verdict of the batch has been handled.
C14_BadJsonOnlyDropsItself ==
    \A i \in 1..Len(msgs) :
        ~msgs[i].json =>
            /\ CopiesOf(i) = {}
            /\ EventsOf(i) = {}
            /\ idx # i
            /\ (HandlerReturned /\ \A k \in 1..Len(msgs) : ~MissingId(msgs[k]))
                   => VerdictsHandled

\* A batch of a record that is not JSON followed by a "success" verdict: the
\* handler has returned, the verdict was copied and its event enqueued.
C14_Witness ==
    /\ Len(msgs) = 2
    /\ ~msgs[1].json
    /\ IsVerdict(msgs[2]) /\ ResultIs(msgs[2], Success)
    /\ cpc = "sleeping" /\ idx = 3
    /\ CopiesOf(1) = {}
    /\ OneCopy(2, PERM) /\ OneAvailableEvent(2)

\* C15: when storage.copy raised for a verdict, that verdict has had exactly
\* one copy call, no event was enqueued for it or for a later record of its
\* batch, and the handler stays at it: it is neither copied again nor queued
\* again.
C15_CopyErrorIsTerminal ==
    \A i \in 1..Len(msgs) :
        CopyRaised(i) =>
            /\ Cardinality(CopiesOf(i)) = 1
            /\ EventsOf(i) = {}
            /\ \A k \in 1..Len(enqLog) :
                 (enqLog[k].src.kind = "verdict" /\ enqLog[k].src.batch = batches)
                     => enqLog[k].src.idx < i
            /\ idx = i

\* The copy of the second verdict of a batch raised after the first verdict,
\* a "success", was copied and announced.
C15_Witness ==
    /\ Len(msgs) = 2
    /\ CopyRaised(2)
    /\ ResultIs(msgs[2], Success)
    /\ OneAvailableEvent(1)
    /\ Len(copyLog) = 2

\* C10: neither loop ever ends.
C10_LoopsNeverEnd == cpc # "dead" /\ ppc # "crashed"

-----------------------------------------------------------------------------
(* The upload handler                                                      *)

UploadEvents(r) ==
    {k \in 1..Len(enqLog) :
        enqLog[k].src = [kind |-> "upload", batch |-> 0, idx |-> r]}

Posted(r) == uploads[r].st # "new"
ContinuationStarted(r) == uploads[r].st \in {"writing", "polling", "removing", "done"}
WriteCompleted(r) == uploads[r].st = "done" /\ uploads[r].success

\* The one event of upload r is the "received" event of its request.
OneReceivedEvent(r) ==
    /\ Cardinality(UploadEvents(r)) = 1
    /\ \A k \in UploadEvents(r) :
         /\ enqLog[k].ev.topic = "platform.upload." \o enqLog[k].ev.msg.service
         /\ enqLog[k].ev.msg.service = uploads[r].req.upload[3]
         /\ enqLog[k].ev.msg.payload_id = uploads[r].req.payload_id
         /\ enqLog[k].ev.msg.hash = uploads[r].req.payload_id
         /\ enqLog[k].ev.msg.url = uploads[r].url
         /\ enqLog[k].ev.msg.url = UrlOf(QUARANTINE, uploads[r].req.payload_id)

NothingStaged(r) ==
    /\ uploads[r].st = "responded"
    /\ uploads[r].tmp = 0
    /\ uploads[r].writes = 0
    /\ UploadEvents(r) = {}

\* C7 as claimed: a request that declares Content-Length >= MAX_LENGTH is
\* answered 413 and nothing of it is staged, whatever its other attributes.
C7_OversizeAlways413 ==
    \A r \in 1..MaxUploads :
        (Posted(r) /\ uploads[r].req.length >= MAX_LENGTH) =>
            /\ uploads[r].status = 413
            /\ NothingStaged(r)

\* C7 as amended: a request that declares Content-Length >= MAX_LENGTH is
\* never staged, whatever its other attributes; it is answered 413 when it
\* has the upload field and the identifier header (whatever its content
\* type), 400 when it has the upload field and no identifier, and 415 when it
\* has no upload field.
C7_OversizeNeverStaged ==
    \A r \in 1..MaxUploads :
        (Posted(r) /\ uploads[r].req.length >= MAX_LENGTH) =>
            /\ NothingStaged(r)
            /\ uploads[r].status =
                 IF uploads[r].req.upload = NoUpload THEN 415
                 ELSE IF uploads[r].req.payload_id = None THEN 400
                 ELSE 413

\* A request of exactly MAX_LENGTH with an identifier and a content type that
\* does not match was answered 413, and one without identifier 400.
C7_Witness ==
    \E r, r2 \in 1..MaxUploads :
        /\ uploads[r].st = "responded" /\ uploads[r].status = 413
        /\ uploads[r].req.length = MAX_LENGTH
        /\ ~MatchesContentRegex(uploads[r].req.upload)
        /\ uploads[r2].st = "responded" /\ uploads[r2].status = 400
        /\ uploads[r2].req.length > MAX_LENGTH

\* C8: a request with the upload field and without the identifier header is
\* answered 400 after the file check and before the size and content-type
\* checks, and nothing of it is staged or enqueued; a request without the
\* upload field is answered 415, with or without identifier.
C8_MissingIdentifier ==
    \A r \in 1..MaxUploads :
        Posted(r) =>
            /\ (uploads[r].req.upload # NoUpload /\ uploads[r].req.payload_id = None) =>
                 /\ uploads[r].status = 400
                 /\ uploads[r].checks = <<"file", "id">>
                 /\ NothingStaged(r)
            /\ uploads[r].req.upload = NoUpload =>
                 /\ uploads[r].status = 415
                 /\ uploads[r].checks = <<"file">>
                 /\ NothingStaged(r)

\* An oversize request with a non-matching content type and no identifier was
\* answered 400, and a request with neither upload field nor identifier 415.
C8_Witness ==
    \E r, r2 \in 1..MaxUploads :
        /\ uploads[r].status = 400
        /\ uploads[r].req.length >= MAX_LENGTH
        /\ uploads[r].req.upload # NoUpload
        /\ ~MatchesContentRegex(uploads[r].req.upload)
        /\ uploads[r2].status = 415
        /\ uploads[r2].req.upload = NoUpload
        /\ uploads[r2].req.payload_id = None

\* C9: once the continuation of an upload is scheduled, and from then on
\* whatever the storage write does, the status of the response is 202.
C9_AcceptedBeforeContinuation ==
    \A r \in 1..MaxUploads :
        (uploads[r].st = "accepted" \/ ContinuationStarted(r)) =>
            uploads[r].status = 202

\* One continuation ended with the write raising, another with the polling
\* loop running out; both responses are 202.
C9_Witness ==
    \E r, r2 \in 1..MaxUploads :
        /\ uploads[r].st = "done" /\ uploads[r].url = None /\ ~uploads[r].success
        /\ uploads[r2].st = "done" /\ uploads[r2].count = PollLimit
        /\ ~uploads[r2].success
        /\ uploads[r].status = 202 /\ uploads[r2].status = 202

\* C16: the temporary file of a continuation is removed exactly once, after
\* the one write attempt, whether the write raised, completed or timed out;
\* an event is enqueued only after the removal and only for a write seen
\* complete; a failed write enqueues nothing and is not attempted again.
C16_TempFileRemovedOnce ==
    \A r \in 1..MaxUploads :
        /\ uploads[r].writes <= 1
        /\ uploads[r].removes <= uploads[r].writes
        /\ uploads[r].removes = 1 <=> uploads[r].st = "done"
        /\ uploads[r].st = "done" => uploads[r].tmp = 1 /\ uploads[r].writes = 1
        /\ UploadEvents(r) # {} =>
               /\ uploads[r].removes = 1
               /\ uploads[r].success
               /\ Cardinality(UploadEvents(r)) = 1
        /\ (uploads[r].st = "done" /\ ~uploads[r].success) => UploadEvents(r) = {}

\* One continuation ended with the write raising, another with the write seen
\* complete after some polls: both files removed once, one event.
C16_Witness ==
    \E r, r2 \in 1..MaxUploads :
        /\ uploads[r].st = "done" /\ uploads[r].url = None
        /\ uploads[r].removes = 1 /\ UploadEvents(r) = {}
        /\ uploads[r2].st = "done" /\ uploads[r2].success /\ uploads[r2].count > 0
        /\ uploads[r2].removes = 1 /\ OneReceivedEvent(r2)

\* An upload whose write returned but was never seen complete.
TimedOut(r) ==
    /\ uploads[r].st \in {"removing", "done"}
    /\ uploads[r].url # None
    /\ ~uploads[r].success

\* C19: failure is declared only after the full timeout: an upload that timed
\* out has slept STORAGE_UPLOAD_TIMEOUT seconds in steps of 10 ms.
C19_FailsOnlyAfterFullTimeout ==
    \A r \in 1..MaxUploads :
        TimedOut(r) => uploads[r].count * PollIntervalMs >= STORAGE_UPLOAD_TIMEOUT * 1000

\* C17: a step that changes producer-connected is a step of the producer
\* loop: to true by a handshake that succeeded, to false by a publish that
\* failed; a step that changes consumer-connected is a step of the consumer
\* loop: to true by its handshake, to false by a failed poll.  A step of an
\* upload continuation, of the validation handler or of the status endpoint
\* changes neither flag.
C17_FlagsFrame ==
    [][ /\ mqp_connected' # mqp_connected =>
             /\ UNCHANGED <<consumerVars, uploads, response>>
             /\ IF mqp_connected'
                THEN ppc = "connecting" /\ ppc' \notin {"connecting", "retry_sleep"}
                ELSE ppc = "sending" /\ retry'.eid = item.eid
        /\ mqc_connected' # mqc_connected =>
             /\ UNCHANGED <<producerVars, queueVars, uploads, response>>
             /\ IF mqc_connected'
                THEN cpc = "connecting" /\ cpc' = "polling"
                ELSE cpc = "polling" /\ cpc' = "sleeping" /\ UNCHANGED <<msgs, idx>>
        /\ (uploads' # uploads \/ response' # response) =>
             UNCHANGED <<mqp_connected, mqc_connected>>
        /\ (idx' # idx \/ copyLog' # copyLog \/ (cpc = "copying" /\ cpc' # cpc)) =>
             UNCHANGED <<mqp_connected, mqc_connected>>
      ]_vars

\* Both loops connected and the status endpoint said so; then a publish
\* failed while the handler awaits a copy and the upload's continuation is over.
C17_Witness ==
    /\ response.message_queue_producer = "up"
    /\ response.message_queue_consumer = "up"
    /\ ~mqp_connected /\ retry.eid # 0
    /\ mqc_connected /\ cpc = "copying"
    /\ uploads[1].st = "done" /\ uploads[1].success

IsAvailable(k) == enqLog[k].ev.topic = "platform.upload.available"

\* C18: when the validation service issues verdicts only for payload ids
\* whose "received" event it has seen published, every "available" event is
\* enqueued after a "received" event of the same payload id was enqueued and
\* published.
C18_ReceivedBeforeAvailable ==
    \A k \in 1..Len(enqLog) :
        IsAvailable(k) =>
            \E j \in 1..(k - 1) :
                /\ ~IsAvailable(j)
                /\ enqLog[j].ev.msg.payload_id = enqLog[k].ev.msg.payload_id
                /\ IsPublished(enqLog[j].ev.eid)

\* An "available" event for "b" was enqueued after the producer had lost the
\* connection once and while the "received" event of another upload is still
\* waiting in the buffer or was discarded from it.
C18_Witness ==
    \E k \in 1..Len(enqLog) :
        /\ IsAvailable(k)
        /\ enqLog[k].ev.msg.payload_id = "b"
        /\ enqLog[k].src.kind = "verdict"
        /\ \E j \in 1..Len(enqLog) :
             /\ ~IsAvailable(j)
             /\ enqLog[j].ev.msg.payload_id = "a"
             /\ ~IsPublished(enqLog[j].ev.eid)

====
